---- MODULE Spec2Model ----
(***************************************************************************)
(* The agent loop of excel_process: run_agent of src/excel_process.py (the *)
(* console variant, "cli") and of src/app.py (the Streamlit variant, "ui") *)
(* with the three tools run_code, copy_file_to_sandbox and                 *)
(* copy_file_from_sandbox.                                                 *)
(*                                                                         *)
(* A Python string is a sequence of atoms: single characters where the     *)
(* code looks inside the string (str.strip), whole tokens elsewhere.       *)
(* String concatenation is \o.  Python's None and an unbound local are the *)
(* two reserved one-atom sequences None and Unbound, which no input text   *)
(* produces.                                                               *)
(***************************************************************************)
EXTENDS Integers, Sequences, FiniteSets, TLC

VARIABLES
    variant,          \* "cli" (excel_process.py) or "ui" (app.py)
    excel_path,       \* the path typed at the prompt / the uploaded temp file
    path_exists,      \* os.path.exists(excel_path)
    user_request,     \* the free-text request
    pc,               \* position of the single thread of control
    excel_file_path,  \* run_agent's second parameter
    messages,         \* the conversation
    tool_calls,       \* response_message.tool_calls of the current turn
    tc,               \* index of the tool call being handled (for loop)
    result,           \* the local variable result of run_agent
    generated_files,  \* the local list generated_files
    all_outputs,      \* ui: the output-event list all_outputs
    sessions,         \* sandbox sessions currently open
    session_count,    \* sandbox sessions opened so far
    call,             \* frame of the tool function being executed
    pending,          \* outcome of the body of the with block
    copy_result,      \* the local copy_result of the staging step
    preview,          \* ui: what pd.read_excel did in the staging step
    spreadsheet,      \* ui: what pd.read_excel makes of the uploaded file
    button,           \* ui: what st.button returns in this run of the script
    startup,          \* what happens at import and at the prompts
    final_result,     \* the local final_result
    returned,         \* value run_agent returned to its caller
    exc,              \* exception that propagated out of run_agent
    exit_status,      \* cli: process exit status
    shown,            \* notices shown outside the event list (print/st.info/st.warning/st.error)
    next_id,          \* tool-call identifiers the model service issued so far
    model_calls,      \* model calls made so far
    dispatch_rounds,  \* completed for loops over a turn's tool calls
    log,              \* one record per tool function that was entered
    sent              \* the messages argument of the latest model call

vars == <<variant, excel_path, path_exists, user_request, spreadsheet, button,
          startup, pc, excel_file_path,
          messages, tool_calls, tc, result, generated_files, all_outputs,
          sessions, session_count, call, pending, copy_result, preview,
          final_result, returned, exc, exit_status, shown, next_id, model_calls,
          dispatch_rounds, log, sent>>

(***************************************************************************)
(* Bounds of the model.                                                    *)
(***************************************************************************)
MaxToolCalls == 2  \* tool calls the model emits during one request
MaxLen == 3        \* characters of a sandbox output text

(***************************************************************************)
(* Python values.                                                          *)
(***************************************************************************)
None == <<"<None>">>
Unbound == <<"<unbound>">>

\* bool(x) of a str-or-None value
TruthyNotNone(x) == x # None

Truthy(x) == x # None /\ x # <<>>

\* the characters str.strip() removes (those with str.isspace()); a character
\* that has no escape in a string here is an atom named by its code point
Whitespace ==
    {" ", "\t", "\n", "\r", "\f", "U+000B",
     "U+001C", "U+001D", "U+001E", "U+001F", "U+0085", "U+00A0", "U+1680",
     "U+2000", "U+2001", "U+2002", "U+2003", "U+2004", "U+2005", "U+2006",
     "U+2007", "U+2008", "U+2009", "U+200A", "U+2028", "U+2029", "U+202F",
     "U+205F", "U+3000"}

RECURSIVE LStrip(_)
LStrip(s) ==
    IF s = <<>> THEN s
    ELSE IF Head(s) \in Whitespace THEN LStrip(Tail(s)) ELSE s

RECURSIVE RStrip(_)
RStrip(s) ==
    IF s = <<>> THEN s
    ELSE IF s[Len(s)] \in Whitespace THEN RStrip(SubSeq(s, 1, Len(s) - 1)) ELSE s

\* str.strip()
Strip(s) == RStrip(LStrip(s))

\* sub in s
Contains(s, sub) ==
    \E i \in 0..(Len(s) - Len(sub)) : SubSeq(s, i + 1, i + Len(sub)) = sub

\* "\n".join(list) and ", ".join(list) over a list of strings
RECURSIVE Join(_, _)
Join(sep, list) ==
    IF list = <<>> THEN <<>>
    ELSE IF Len(list) = 1 THEN list[1]
    ELSE list[1] \o sep \o Join(sep, Tail(list))

\* os.path.basename: what follows the last "/"
RECURSIVE Basename(_)
Basename(p) ==
    IF p = <<>> THEN <<>>
    ELSE IF p[Len(p)] = "/" THEN <<>>
    ELSE Basename(SubSeq(p, 1, Len(p) - 1)) \o <<p[Len(p)]>>

\* os.path.join(dir, name) for a relative name
PathJoin(dir, name) ==
    IF dir # <<>> /\ dir[Len(dir)] = "/" THEN dir \o name
    ELSE dir \o <<"/">> \o name

Min(a, b) == IF a < b THEN a ELSE b

(***************************************************************************)
(* The three tools, as functions of what the sandbox does.                 *)
(***************************************************************************)
\* the fixed advisory string of run_code (the source text is Chinese: "ran
\* successfully but produced no output; try adding print statements")
Advisory == <<"[advisory: ran successfully, no output, add print]">>

\* run_code: the value returned for the text of session.run(...)
RunCodeReturnNoStripCheck(text) ==
    IF ~Truthy(text) THEN Advisory ELSE text

RunCodeReturn(text) ==
    IF ~Truthy(text) \/ Strip(text) = <<>> THEN Advisory ELSE text

\* the source's message prefixes are Chinese; the atoms below are glosses
CopyFailed(e) == <<"[copy failed]: ">> \o e

CopyToOk(local_path, sandbox_path) ==
    <<"[copied to sandbox]: ">> \o local_path \o <<" -> ">> \o sandbox_path

CopyFromOk(sandbox_path, local_path) ==
    <<"[copied from sandbox]: ">> \o sandbox_path \o <<" -> ">> \o local_path

(***************************************************************************)
(* Inputs: what the user, the model service, the sandbox and pandas may    *)
(* hand to the program.                                                    *)
(***************************************************************************)
Variants == {"cli", "ui"}

\* cli: the line typed at the file prompt; ui: temp_file_path of main()
CliPaths == {<<>>, <<"in", "/", "data.xlsx">>}
UiPaths == {None, <<"/", "tmp", "/", "tmpab12.xlsx">>}

\* the text of the request: the ui tests it for emptiness, the console
\* program passes whatever was typed on to run_agent untested
Requests == {<<>>, <<"[request]">>}

\* what may go wrong before the inputs are in: OpenAI(...) at module level
\* raises without an API key; input() raises at the end of standard input,
\* at the file prompt or at the request prompt (console only)
StartupOutcomes(v) ==
    IF v = "cli" THEN {"ok", "no_api_key", "eof_path", "eof_request"}
    ELSE {"ok", "no_api_key"}

\* response_message.content: narration or null beside tool calls; text, the
\* empty string or null in a message without tool calls
Contents(choices) ==
    IF choices # <<>> THEN {None, <<"[assistant text]">>}
    ELSE {None, <<>>, <<"[assistant text]">>}

NoArgs == [json_ok |-> TRUE, lang |-> None, code |-> None,
           local_path |-> None, sandbox_path |-> None]

\* tool_call.function.name and tool_call.function.arguments
ToolCallChoices ==
    { [name |-> "run_code",
       arguments |-> [NoArgs EXCEPT !.lang = <<"python">>,
                                    !.code = <<"[code]">>]],
      [name |-> "run_code",
       arguments |-> [NoArgs EXCEPT !.json_ok = FALSE]],
      [name |-> "copy_file_to_sandbox",
       arguments |-> [NoArgs EXCEPT !.local_path = <<"extra.csv">>,
                                    !.sandbox_path = <<"/", "sandbox">>]],
      [name |-> "copy_file_from_sandbox",
       arguments |-> [NoArgs EXCEPT !.sandbox_path = <<"/", "sandbox", "/", "a", ".png">>,
                                    !.local_path = <<"a", ".png">>]],
      [name |-> "copy_file_from_sandbox",
       arguments |-> [NoArgs EXCEPT !.sandbox_path = <<"/", "sandbox", "/", "b", ".csv">>,
                                    !.local_path = <<"b", ".csv">>]],
      [name |-> "plot_chart", arguments |-> NoArgs] }

KnownTools == {"run_code", "copy_file_to_sandbox", "copy_file_from_sandbox"}
CopyTools == {"copy_file_to_sandbox", "copy_file_from_sandbox"}

\* the lists of at most n tool calls one assistant message may carry
ToolCallLists(n) ==
    UNION { [1..k -> ToolCallChoices] : k \in 0..n }

\* every text of at most MaxLen characters, and None; the characters are
\* blank, tab, newline, carriage return, two whitespace characters outside
\* ASCII, and one that is not whitespace
Chars == {" ", "\t", "\n", "\r", "U+00A0", "U+3000", "a"}
AllTexts == UNION { [1..n -> Chars] : n \in 0..MaxLen } \cup {None}

\* session.run(...).text in the agent loop: blank, or text between blanks
\* (SpecRunCode below runs run_code over AllTexts)
SandboxTexts == {<<" ", "\n">>, <<" ", "a", "\n">>}

\* str(e) of what the sandbox raises
ExcOpen == <<"[cannot start container]">>
ExcBody == <<"[sandbox operation failed]">>
ExcPreview == <<"[not a spreadsheet]">>

\* a column label of a frame: pd.read_excel gives a text header cell as a
\* str and a numeric one as an int
Label(type, text) == [type |-> type, text |-> text]

\* pd.read_excel(excel_file_path): raises, or a frame
Frames == {[rows |-> 7, columns |-> <<Label("str", "A"), Label("str", "B")>>],
           [rows |-> 7, columns |-> <<Label("int", "2020"), Label("int", "2021")>>]}
PreviewOutcomes == {[kind |-> "exc", df |-> [rows |-> 0, columns |-> <<>>]]}
                   \cup {[kind |-> "value", df |-> f] : f \in Frames}
NoPreview == [kind |-> "none", df |-> [rows |-> 0, columns |-> <<>>]]

\* position of the first label that is not a str, 0 when all are
FirstNonStr(columns) ==
    IF \A i \in 1..Len(columns) : columns[i].type = "str" THEN 0
    ELSE CHOOSE i \in 1..Len(columns) :
            /\ columns[i].type # "str"
            /\ \A j \in 1..(i - 1) : columns[j].type = "str"

\* str(e) of the TypeError of ", ".join(...) over labels
JoinTypeError(item) ==
    <<"sequence item ", ToString(item), ": expected str instance, ", "int", " found">>

\* run_agent's try block around the preview, given what pd.read_excel does:
\* it raises when reading raises and when joining the column labels raises
PreviewRaises(pv) == pv.kind = "exc" \/ FirstNonStr(pv.df.columns) # 0

PreviewError(pv) ==
    IF pv.kind = "exc" THEN ExcPreview
    ELSE JoinTypeError(FirstNonStr(pv.df.columns) - 1)

ExtractPreview(pv) ==
    IF PreviewRaises(pv) THEN [kind |-> "exc", df |-> [rows |-> 0, columns |-> <<>>]]
    ELSE pv

(***************************************************************************)
(* Messages, events and frames.                                            *)
(***************************************************************************)
Msg(role, content) ==
    [role |-> role, content |-> content, tool_calls |-> <<>>,
     tool_call_id |-> 0, name |-> ""]

AssistantMsg(content, calls) ==
    [role |-> "assistant", content |-> content, tool_calls |-> calls,
     tool_call_id |-> 0, name |-> ""]

ToolMsg(id, function_name, content) ==
    [role |-> "tool", content |-> content, tool_calls |-> <<>>,
     tool_call_id |-> id, name |-> function_name]

Event(type, content) == [type |-> type, content |-> content]

Notice(kind, content) == [kind |-> kind, content |-> content]

NoCall == [fn |-> "", a1 |-> <<>>, a2 |-> <<>>, caller |-> "", id |-> 0]
NoPending == [kind |-> "none", val |-> <<>>]

SystemPrompt == <<"[system prompt]">>
Ack == <<"[ok, please wait]">>
UploadedNote == <<"\n\n", "[excel file uploaded to sandbox, path]: ">>
Trailer == <<"\n\n", "[generated files]:", "\n">>

\* messages as first built by run_agent
InitialMessagesNoAck(v, user_input) ==
    IF v = "cli" THEN <<Msg("user", user_input)>>
    ELSE <<Msg("system", SystemPrompt), Msg("user", user_input)>>

InitialMessages(v, user_input) ==
    IF v = "cli" THEN <<Msg("user", user_input)>>
    ELSE <<Msg("system", SystemPrompt), Msg("user", user_input),
           Msg("assistant", Ack)>>

SandboxDir(v) == IF v = "cli" THEN <<"/", "sandbox">> ELSE <<"/", "sandbox", "/">>

\* the path the model is told
SandboxExcelPath(v, path) == PathJoin(SandboxDir(v), Basename(path))

ColumnsInfo(df) == <<"[columns]: ">> \o Join(<<", ">>, [i \in 1..Len(df.columns) |-> <<df.columns[i].text>>])

\* excel_info of the ui variant
ExcelInfo(excel_filename, df) ==
    <<"\n\n", "[preview]:", "\n", "[file name]: ">> \o excel_filename
    \o <<"\n", "[rows]: ", ToString(df.rows), "\n", "[columns count]: ",
         ToString(Len(df.columns)), "\n">>
    \o ColumnsInfo(df)
    \o <<"\n\n", "[first rows]: ", ToString(Min(5, df.rows)), "\n",
         "[df.head]", "\n\n", "[dtypes]">>

\* the model service numbers the tool calls it emits
RECURSIVE WithIds(_, _)
WithIds(choices, first) ==
    IF choices = <<>> THEN <<>>
    ELSE <<[id |-> first, name |-> choices[1].name,
            arguments |-> choices[1].arguments]>>
         \o WithIds(Tail(choices), first + 1)

(***************************************************************************)
(* Initial state: the process has started and nothing has run yet.         *)
(***************************************************************************)
Init ==
    /\ variant \in Variants
    /\ excel_path \in (IF variant = "cli" THEN CliPaths ELSE UiPaths)
    /\ path_exists \in (IF variant = "cli"
                        THEN (IF excel_path = <<>> THEN {FALSE} ELSE BOOLEAN)
                        ELSE {excel_path # None})
    /\ user_request \in Requests
    /\ startup \in StartupOutcomes(variant)
    /\ spreadsheet \in (IF variant = "ui" /\ excel_path # None
                        THEN PreviewOutcomes ELSE {NoPreview})
    /\ button \in (IF variant = "ui" THEN BOOLEAN ELSE {FALSE})
    /\ pc = "main"
    /\ excel_file_path = None
    /\ messages = <<>>
    /\ tool_calls = <<>>
    /\ tc = 0
    /\ result = Unbound
    /\ generated_files = <<>>
    /\ all_outputs = <<>>
    /\ sessions = {}
    /\ session_count = 0
    /\ call = NoCall
    /\ pending = NoPending
    /\ copy_result = Unbound
    /\ preview = NoPreview
    /\ final_result = Unbound
    /\ returned = Unbound
    /\ exc = "none"
    /\ exit_status = -1
    /\ shown = <<>>
    /\ next_id = 0
    /\ model_calls = 0
    /\ dispatch_rounds = 0
    /\ log = <<>>
    /\ sent = <<>>

inputs == <<variant, excel_path, path_exists, user_request, spreadsheet, button,
            startup>>

\* an exception is not caught: the run is over; the console process dies
\* with the interpreter's status for an uncaught exception
Propagate(e) ==
    /\ exc' = e
    /\ pc' = "end"
    /\ exit_status' = IF variant = "cli" THEN 1 ELSE exit_status

(***************************************************************************)
(* __main__ of excel_process.py, main() of app.py.                         *)
(***************************************************************************)
\* the sidebar of main(): the preview of an uploaded file, shown on every
\* run of the script before the button is looked at
SidebarInfo(df) ==
    <<"[rows]: ", ToString(df.rows), ", [columns count]: ",
      ToString(Len(df.columns))>>

SidebarError(e) == <<"[cannot preview file]: ">> \o e

SidebarNotices(path, pv) ==
    IF path = None THEN <<>>
    ELSE IF pv.kind = "value" THEN <<Notice("info", SidebarInfo(pv.df))>>
    ELSE <<Notice("error", SidebarError(ExcPreview))>>

\* the guard of exit(1)
FileMissingAnyPath(path, exists) == ~exists

FileMissing(path, exists) == Truthy(path) /\ ~exists

Main ==
    /\ pc = "main"
    /\ IF startup = "no_api_key"
       THEN /\ Propagate("OpenAIError")
            /\ UNCHANGED <<excel_file_path, shown>>
       ELSE IF variant = "cli"
       THEN IF startup = "eof_path"
            THEN /\ Propagate("EOFError")
                 /\ UNCHANGED <<excel_file_path, shown>>
            ELSE IF FileMissing(excel_path, path_exists)
            THEN /\ shown' = Append(shown, Notice("print", <<"[error: no such file]: ">> \o excel_path))
                 /\ exit_status' = 1
                 /\ pc' = "end"
                 /\ UNCHANGED <<excel_file_path, exc>>
            ELSE IF startup = "eof_request"
            THEN /\ Propagate("EOFError")
                 /\ UNCHANGED <<excel_file_path, shown>>
            ELSE /\ excel_file_path' = IF Truthy(excel_path) THEN excel_path ELSE None
                 /\ pc' = "run_agent"
                 /\ UNCHANGED <<shown, exit_status, exc>>
       ELSE IF ~button
            THEN /\ shown' = shown \o SidebarNotices(excel_path, spreadsheet)
                 /\ pc' = "end"
                 /\ UNCHANGED <<excel_file_path, exit_status, exc>>
            ELSE IF ~Truthy(user_request)
            THEN /\ shown' = shown \o SidebarNotices(excel_path, spreadsheet)
                              \o <<Notice("warning", <<"[please enter a request]">>)>>
                 /\ pc' = "end"
                 /\ UNCHANGED <<excel_file_path, exit_status, exc>>
            ELSE /\ shown' = shown \o SidebarNotices(excel_path, spreadsheet)
                 /\ excel_file_path' = excel_path
                 /\ pc' = "run_agent"
                 /\ UNCHANGED <<exit_status, exc>>
    /\ UNCHANGED <<sent, inputs, messages, tool_calls, tc, result, generated_files,
                   all_outputs, sessions, session_count, call, pending,
                   copy_result, preview, final_result, returned, next_id,
                   model_calls, dispatch_rounds, log>>

(***************************************************************************)
(* run_agent up to its first external call.                                *)
(***************************************************************************)
Begin ==
    /\ pc = "run_agent"
    /\ messages' = InitialMessages(variant, user_request)
    /\ IF Truthy(excel_file_path)
       THEN /\ call' = [fn |-> "copy_file_to_sandbox", a1 |-> excel_file_path,
                        a2 |-> SandboxDir(variant), caller |-> "stage", id |-> 0]
            /\ pc' = "session_open"
       ELSE /\ pc' = "call_model"
            /\ UNCHANGED call
    /\ UNCHANGED <<sent, inputs, excel_file_path, tool_calls, tc, result,
                   generated_files, all_outputs, sessions, session_count,
                   pending, copy_result, preview, final_result, returned, exc,
                   exit_status, shown, next_id, model_calls, dispatch_rounds,
                   log>>

(***************************************************************************)
(* The tool functions.  Each is: enter the with block (open a session),    *)
(* run its body, leave the with block (close the session), return.         *)
(***************************************************************************)
\* what the tool function makes of the outcome p of its with statement
ToolRaisesAll(fn, p) == p.kind = "exc"

ToolRaisesNever(fn, p) == FALSE

ToolRaises(fn, p) == fn = "run_code" /\ p.kind = "exc"

ToolReturn(c, p) ==
    IF c.fn = "run_code" THEN RunCodeReturn(p.val)
    ELSE IF p.kind = "exc" THEN CopyFailed(p.val)
    ELSE IF c.fn = "copy_file_to_sandbox" THEN CopyToOk(c.a1, c.a2)
    ELSE CopyFromOk(c.a1, c.a2)

\* the tool function ends with outcome p, having used session sid (0: none)
ToolEnds(p, sid) ==
    /\ log' = Append(log, [fn |-> call.fn, caller |-> call.caller, id |-> call.id,
                           a1 |-> call.a1, a2 |-> call.a2,
                           session |-> sid, outcome |-> p,
                           raised |-> ToolRaises(call.fn, p)])
    /\ call' = NoCall
    /\ pending' = NoPending
    /\ IF ToolRaises(call.fn, p)
       THEN /\ Propagate("SandboxError")
            /\ UNCHANGED <<result, copy_result>>
       ELSE IF call.caller = "stage"
       THEN /\ copy_result' = ToolReturn(call, p)
            /\ pc' = "staged"
            /\ UNCHANGED <<result, exc, exit_status>>
       ELSE /\ result' = ToolReturn(call, p)
            /\ pc' = "after_tool"
            /\ UNCHANGED <<copy_result, exc, exit_status>>

\* SandboxSession(...).__enter__
SessionOpen ==
    /\ pc = "session_open"
    /\ \/ /\ session_count' = session_count + 1
          /\ sessions' = sessions \cup {session_count + 1}
          /\ pc' = "tool_body"
          /\ UNCHANGED <<call, pending, result, copy_result, exc, exit_status, log>>
       \/ /\ ToolEnds([kind |-> "exc", val |-> ExcOpen], 0)
          /\ UNCHANGED <<sessions, session_count>>
    /\ UNCHANGED <<sent, inputs, excel_file_path, messages, tool_calls, tc,
                   generated_files, all_outputs, preview, final_result, returned,
                   shown, next_id, model_calls, dispatch_rounds>>

\* what the body of the with block may do: raise, or (run_code) yield one of
\* texts as session.run(...).text, or (copy) complete
BodyOutcomes(fn, texts) ==
    {[kind |-> "exc", val |-> ExcBody]}
    \cup (IF fn = "run_code"
          THEN {[kind |-> "value", val |-> t] : t \in texts}
          ELSE {[kind |-> "value", val |-> <<>>]})

\* session.run / session.copy_to_runtime / session.copy_from_runtime
ToolBodyOver(texts) ==
    /\ pc = "tool_body"
    /\ \E p \in BodyOutcomes(call.fn, texts) : pending' = p
    /\ pc' = "session_exit"
    /\ UNCHANGED <<sent, inputs, excel_file_path, messages, tool_calls, tc, result,
                   generated_files, all_outputs, sessions, session_count, call,
                   copy_result, preview, final_result, returned, exc,
                   exit_status, shown, next_id, model_calls, dispatch_rounds,
                   log>>

ToolBody == ToolBodyOver(SandboxTexts)

\* the session the with statement of the running tool holds
CurrentSession == CHOOSE sid \in sessions : \A other \in sessions : other <= sid

\* SandboxSession.__exit__, then the tool function returns or raises
SessionExitLeak ==
    /\ pc = "session_exit"
    /\ sessions' = IF pending.kind = "exc" THEN sessions ELSE sessions \ {CurrentSession}
    /\ ToolEnds(pending, CurrentSession)
    /\ UNCHANGED <<sent, inputs, excel_file_path, messages, tool_calls, tc,
                   generated_files, all_outputs, session_count, preview,
                   final_result, returned, shown, next_id, model_calls,
                   dispatch_rounds>>

SessionExit ==
    /\ pc = "session_exit"
    /\ sessions' = sessions \ {CurrentSession}
    /\ ToolEnds(pending, CurrentSession)
    /\ UNCHANGED <<sent, inputs, excel_file_path, messages, tool_calls, tc,
                   generated_files, all_outputs, session_count, preview,
                   final_result, returned, shown, next_id, model_calls,
                   dispatch_rounds>>

(***************************************************************************)
(* run_agent after the staging copy: tell the model where the file is.     *)
(***************************************************************************)
PreviewWarning(e) == <<"[cannot extract preview]: ">> \o e

\* messages[0]["content"] after the staging step (ui); pv is the outcome
\* of the try block around the preview
StagedContentPathOnlyWithPreview(content, note, excel_filename, pv) ==
    IF pv.kind = "value"
    THEN content \o note \o ExcelInfo(excel_filename, pv.df)
    ELSE content

StagedContent(content, note, excel_filename, pv) ==
    IF pv.kind = "value"
    THEN content \o note \o ExcelInfo(excel_filename, pv.df)
    ELSE content \o note

Staged ==
    /\ pc = "staged"
    /\ LET excel_filename == Basename(excel_file_path)
           note == UploadedNote \o SandboxExcelPath(variant, excel_file_path)
       IN IF variant = "cli"
          THEN /\ shown' = Append(shown, Notice("print", copy_result))
               /\ messages' = [messages EXCEPT ![1].content = @ \o note]
               /\ UNCHANGED preview
          ELSE LET pv == ExtractPreview(spreadsheet) IN
                 /\ preview' = pv
                 /\ messages' = [messages EXCEPT ![1].content =
                                   StagedContent(@, note, excel_filename, pv)]
                 /\ shown' = IF pv.kind = "value"
                             THEN Append(shown, Notice("info", copy_result))
                             ELSE shown \o <<Notice("info", copy_result),
                                             Notice("warning",
                                                    PreviewWarning(PreviewError(spreadsheet)))>>
    /\ pc' = "call_model"
    /\ UNCHANGED <<sent, inputs, excel_file_path, tool_calls, tc, result,
                   generated_files, all_outputs, sessions, session_count, call,
                   pending, final_result, returned, exc, exit_status, next_id,
                   model_calls, dispatch_rounds, log>>
    /\ UNCHANGED copy_result

(***************************************************************************)
(* The while loop: one model call, then the for loop over its tool calls.  *)
(***************************************************************************)
\* the messages argument of client.chat.completions.create
SentMessagesLastTurn(msgs) ==
    IF Len(msgs) > 3 THEN SubSeq(msgs, Len(msgs) - 2, Len(msgs)) ELSE msgs

SentMessages(msgs) == msgs

\* client.chat.completions.create(...) and what follows it up to the
\* branch on response_message.tool_calls
CallModel ==
    /\ pc = "call_model"
    /\ model_calls' = model_calls + 1
    /\ sent' = SentMessages(messages)
    /\ \/ /\ Propagate("ModelError")
          /\ UNCHANGED <<messages, tool_calls, tc, all_outputs, next_id>>
       \/ \E choices \in ToolCallLists(MaxToolCalls - next_id) :
          \E content \in Contents(choices) :
            /\ LET calls == WithIds(choices, next_id + 1)
               IN /\ messages' = Append(messages, AssistantMsg(content, calls))
                  /\ tool_calls' = calls
                  /\ next_id' = next_id + Len(calls)
                  /\ all_outputs' = IF variant = "ui" /\ Truthy(content)
                                    THEN Append(all_outputs, Event("ai", content))
                                    ELSE all_outputs
                  /\ IF calls # <<>>
                     THEN tc' = 1 /\ pc' = "dispatch"
                     ELSE tc' = 0 /\ pc' = "finish"
            /\ UNCHANGED <<exc, exit_status>>
    /\ UNCHANGED <<inputs, excel_file_path, result, generated_files, sessions,
                   session_count, call, pending, copy_result, preview,
                   final_result, returned, shown, dispatch_rounds, log>>

\* top of the for loop body: parse the arguments, branch on the name
Dispatch ==
    /\ pc = "dispatch"
    /\ LET tool_call == tool_calls[tc]
           function_name == tool_call.name
           function_args == tool_call.arguments
       IN IF ~function_args.json_ok
          THEN /\ Propagate("JSONDecodeError")
               /\ UNCHANGED <<call, all_outputs>>
          ELSE /\ UNCHANGED <<exc, exit_status>>
               /\ IF function_name = "run_code"
                  THEN /\ all_outputs' = IF variant = "ui"
                                         THEN Append(all_outputs, Event("code", function_args.code))
                                         ELSE all_outputs
                       /\ call' = [fn |-> function_name, a1 |-> function_args.lang,
                                   a2 |-> function_args.code, caller |-> "loop",
                                   id |-> tool_call.id]
                       /\ pc' = "session_open"
                  ELSE IF function_name = "copy_file_to_sandbox"
                  THEN /\ call' = [fn |-> function_name, a1 |-> function_args.local_path,
                                   a2 |-> function_args.sandbox_path, caller |-> "loop",
                                   id |-> tool_call.id]
                       /\ pc' = "session_open"
                       /\ UNCHANGED all_outputs
                  ELSE IF function_name = "copy_file_from_sandbox"
                  THEN /\ call' = [fn |-> function_name, a1 |-> function_args.sandbox_path,
                                   a2 |-> function_args.local_path, caller |-> "loop",
                                   id |-> tool_call.id]
                       /\ pc' = "session_open"
                       /\ UNCHANGED all_outputs
                  ELSE /\ pc' = "after_tool"
                       /\ UNCHANGED <<call, all_outputs>>
    /\ UNCHANGED <<sent, inputs, excel_file_path, messages, tool_calls, tc, result,
                   generated_files, sessions, session_count, pending,
                   copy_result, preview, final_result, returned, shown,
                   next_id, model_calls, dispatch_rounds, log>>

\* the identifier the tool message of tool_call carries
AnswerIdFirst(calls, i) == calls[1].id

AnswerId(calls, i) == calls[i].id

\* rest of the for loop body: record the result, append the tool message
AfterTool ==
    /\ pc = "after_tool"
    /\ LET tool_call == tool_calls[tc]
           function_name == tool_call.name
           function_args == tool_call.arguments
       IN /\ all_outputs' =
                IF variant # "ui" THEN all_outputs
                ELSE IF function_name = "run_code"
                THEN Append(all_outputs, Event("result", result))
                ELSE IF function_name \in CopyTools
                THEN Append(all_outputs, Event("info", result))
                ELSE all_outputs
          /\ generated_files' =
                IF variant = "ui" /\ function_name = "copy_file_from_sandbox"
                THEN Append(generated_files, function_args.local_path)
                ELSE generated_files
          /\ IF result = Unbound
             THEN /\ Propagate("UnboundLocalError")
                  /\ UNCHANGED <<messages, tc, dispatch_rounds>>
             ELSE /\ messages' = Append(messages,
                                        ToolMsg(AnswerId(tool_calls, tc), function_name, result))
                  /\ tc' = tc + 1
                  /\ IF tc < Len(tool_calls)
                     THEN pc' = "dispatch" /\ UNCHANGED dispatch_rounds
                     ELSE pc' = "call_model" /\ dispatch_rounds' = dispatch_rounds + 1
                  /\ UNCHANGED <<exc, exit_status>>
    /\ UNCHANGED <<sent, inputs, excel_file_path, tool_calls, result, sessions,
                   session_count, call, pending, copy_result, preview,
                   final_result, returned, shown, next_id, model_calls, log>>

\* update_results() on the files event: st.image(file) for a file whose
\* lower-cased name ends in an image suffix
ImageSuffixes == {<<".png">>, <<".jpg">>, <<".jpeg">>, <<".svg">>, <<".gif">>}

\* str.lower(), atom by atom
LowerAtom(a) ==
    CASE a = ".PNG" -> ".png"
      [] a = ".JPG" -> ".jpg"
      [] a = ".JPEG" -> ".jpeg"
      [] a = ".SVG" -> ".svg"
      [] a = ".GIF" -> ".gif"
      [] OTHER -> a

Lower(s) == [i \in 1..Len(s) |-> LowerAtom(s[i])]

EndsWith(s, suffix) ==
    /\ Len(s) >= Len(suffix)
    /\ SubSeq(s, Len(s) - Len(suffix) + 1, Len(s)) = suffix

IsImage(file) == \E suffix \in ImageSuffixes : EndsWith(Lower(file), suffix)

\* a copy_file_from_sandbox of this request wrote the local file
Written(file) ==
    \E n \in 1..Len(log) :
        /\ log[n].fn = "copy_file_from_sandbox"
        /\ log[n].outcome.kind = "value"
        /\ log[n].a2 = file

\* whether st.image can open every image of the files event: one that was
\* written can be; one that was not may or may not be there from before
ImagesOpen(files) ==
    IF \E i \in 1..Len(files) : IsImage(files[i]) /\ ~Written(files[i])
    THEN BOOLEAN ELSE {TRUE}

\* the else branch of the while loop: the final result.  In the cli variant
\* nothing ever appends to generated_files, so its `if generated_files:`
\* block never runs.
Finish ==
    /\ pc = "finish"
    /\ LET response_message == messages[Len(messages)]
       IN IF generated_files # <<>> /\ response_message.content = None
          THEN /\ Propagate("TypeError")
               /\ final_result' = None
               /\ UNCHANGED <<all_outputs, returned, shown>>
          ELSE /\ final_result' =
                    IF generated_files # <<>>
                    THEN response_message.content \o Trailer
                         \o Join(<<"\n">>, generated_files)
                    ELSE response_message.content
               /\ all_outputs' =
                    IF generated_files # <<>>
                    THEN Append(all_outputs, Event("files", generated_files))
                    ELSE all_outputs
               /\ IF variant = "cli"
                  THEN /\ returned' = final_result'
                       /\ shown' = Append(shown, Notice("print", final_result'))
                       /\ exit_status' = 0
                       /\ pc' = "end"
                       /\ UNCHANGED exc
                  ELSE \E opens \in ImagesOpen(generated_files) :
                         IF opens
                         THEN /\ returned' = None
                              /\ pc' = "end"
                              /\ UNCHANGED <<shown, exit_status, exc>>
                         ELSE /\ Propagate("ImageError")
                              /\ UNCHANGED <<returned, shown>>
    /\ UNCHANGED <<sent, inputs, excel_file_path, messages, tool_calls, tc, result,
                   generated_files, sessions, session_count, call, pending,
                   copy_result, preview, next_id, model_calls, dispatch_rounds,
                   log>>

Next ==
    \/ Main
    \/ Begin
    \/ SessionOpen
    \/ ToolBody
    \/ SessionExit
    \/ Staged
    \/ CallModel
    \/ Dispatch
    \/ AfterTool
    \/ Finish

Spec == Init /\ [][Next]_vars

(***************************************************************************)
(* run_code called on its own, over every sandbox text of at most MaxLen   *)
(* characters.                                                             *)
(***************************************************************************)
InitRunCode ==
    /\ variant \in Variants
    /\ excel_path = None
    /\ path_exists = FALSE
    /\ user_request \in Requests
    /\ spreadsheet = NoPreview
    /\ button = FALSE
    /\ startup = "ok"
    /\ pc = "session_open"
    /\ excel_file_path = None
    /\ messages = <<>>
    /\ tool_calls = <<>>
    /\ tc = 0
    /\ result = Unbound
    /\ generated_files = <<>>
    /\ all_outputs = <<>>
    /\ sessions = {}
    /\ session_count = 0
    /\ call = [fn |-> "run_code", a1 |-> <<"python">>, a2 |-> <<"[code]">>,
               caller |-> "loop", id |-> 1]
    /\ pending = NoPending
    /\ copy_result = Unbound
    /\ preview = NoPreview
    /\ final_result = Unbound
    /\ returned = Unbound
    /\ exc = "none"
    /\ exit_status = -1
    /\ shown = <<>>
    /\ next_id = 1
    /\ model_calls = 0
    /\ dispatch_rounds = 0
    /\ log = <<>>
    /\ sent = <<>>

RunCodeBody == ToolBodyOver(AllTexts)

NextRunCode ==
    \/ SessionOpen
    \/ RunCodeBody
    \/ SessionExit

SpecRunCode == InitRunCode /\ [][NextRunCode]_vars

(***************************************************************************)
(* Properties.                                                             *)
(***************************************************************************)
Last(seq) == seq[Len(seq)]

LaterAssistant(a) ==
    \E b \in (a + 1)..Len(messages) : messages[b].role = "assistant"

\* C1: an assistant turn with k >= 1 tool calls is followed, before the next
\* model call, by exactly k tool messages, the i-th carrying the identifier
\* of the turn's i-th tool call, whatever the function names are.
C1_ToolMessagesAnswerTurn ==
    \A a \in 1..Len(messages) :
        (messages[a].role = "assistant" /\ messages[a].tool_calls # <<>>) =>
            LET calls == messages[a].tool_calls
                k == Len(calls)
                next_call_made == pc = "call_model" \/ LaterAssistant(a)
            IN /\ \A i \in 1..k :
                     a + i <= Len(messages) =>
                        /\ messages[a + i].role = "tool"
                        /\ messages[a + i].tool_call_id = calls[i].id
               /\ next_call_made =>
                     /\ Len(messages) >= a + k
                     /\ Len(messages) > a + k => messages[a + k + 1].role = "assistant"
               /\ ~next_call_made => Len(messages) <= a + k

\* a turn of two tool calls, the second with a name outside the three tools,
\* has been answered and the next model call is due
C1_Witness ==
    /\ pc = "call_model"
    /\ \E a \in 1..Len(messages) :
          /\ messages[a].role = "assistant"
          /\ Len(messages[a].tool_calls) = 2
          /\ messages[a].tool_calls[2].name \notin KnownTools
          /\ Len(messages) = a + 2
          /\ messages[a + 2].tool_call_id = messages[a].tool_calls[2].id

AllWhitespace(text) == \A i \in 1..Len(text) : text[i] \in Whitespace

\* C3: run_code returns the advisory string when the sandbox text is None,
\* empty or only whitespace, and the sandbox text itself otherwise.
C3_RunCodeResult ==
    (pc = "after_tool" /\ log # <<>> /\ Last(log).fn = "run_code"
       /\ Last(log).outcome.kind = "value") =>
        LET text == Last(log).outcome.val
        IN result = IF text = None \/ AllWhitespace(text) THEN Advisory ELSE text

\* run_code has returned for a sandbox text of blanks only
C3_Witness ==
    /\ pc = "after_tool"
    /\ log # <<>>
    /\ Last(log).fn = "run_code"
    /\ Last(log).outcome.kind = "value"
    /\ Last(log).outcome.val # None
    /\ Len(Last(log).outcome.val) >= 2
    /\ AllWhitespace(Last(log).outcome.val)
    /\ result = Advisory

\* assistant turns so far that carried tool calls
RECURSIVE TurnsWithCalls(_)
TurnsWithCalls(msgs) ==
    IF msgs = <<>> THEN 0
    ELSE TurnsWithCalls(Tail(msgs))
         + (IF Head(msgs).role = "assistant" /\ Head(msgs).tool_calls # <<>> THEN 1 ELSE 0)

ExternalExceptions == {"ModelError", "JSONDecodeError", "SandboxError"}

\* C2: when no external call raises and the model answers N turns with tool
\* calls and then one without, run_agent ends at that message after N + 1
\* model calls and N dispatch rounds and returns that message's text.
C2_TerminatesAfterNRounds ==
    (pc = "end" /\ messages # <<>> /\ exc \notin ExternalExceptions) =>
        /\ Last(messages).role = "assistant"
        /\ Last(messages).tool_calls = <<>>
        /\ model_calls = TurnsWithCalls(messages) + 1
        /\ dispatch_rounds = TurnsWithCalls(messages)
        /\ returned = Last(messages).content

\* the tool message that answers the tool call numbered id
Answered(id, content) ==
    \E j \in 1..Len(messages) :
        /\ messages[j].role = "tool"
        /\ messages[j].tool_call_id = id
        /\ messages[j].content = content

\* C4: a copy tool whose session or copy primitive throws does not raise: it
\* returns the failure string with the exception text, which in the loop
\* becomes the tool message of that call, and the request goes on.
C4_CopyToolsNeverRaise ==
    /\ \A n \in 1..Len(log) :
          (log[n].fn \in CopyTools /\ log[n].outcome.kind = "exc") =>
              LET failure == CopyFailed(log[n].outcome.val)
              IN /\ ~log[n].raised
                 /\ Contains(failure, log[n].outcome.val)
                 /\ IF log[n].caller = "stage"
                    THEN copy_result = failure
                    ELSE IF n = Len(log) /\ pc = "after_tool"
                    THEN result = failure
                    ELSE Answered(log[n].id, failure)
    /\ exc = "SandboxError" => Last(log).fn = "run_code"

\* both calls of a turn were copies and the sandbox threw in each, once on
\* opening the session and once in the copy primitive; both are answered
C4_Witness ==
    /\ pc = "call_model"
    /\ Len(log) >= 2
    /\ \E m, n \in 1..Len(log) :
          /\ log[m].fn = "copy_file_to_sandbox" /\ log[m].caller = "loop"
          /\ log[m].outcome = [kind |-> "exc", val |-> ExcOpen]
          /\ log[n].fn = "copy_file_from_sandbox"
          /\ log[n].outcome = [kind |-> "exc", val |-> ExcBody]
          /\ Answered(log[m].id, CopyFailed(ExcOpen))
          /\ Answered(log[n].id, CopyFailed(ExcBody))

\* C5 as stated: at the first model call the conversation is [system prompt,
\* user message]; the user message is the request, followed, when a file was
\* supplied, by the staged path (and the preview when there is one).
C5_InitialConversation ==
    (pc = "call_model" /\ model_calls = 0) =>
        /\ Len(messages) = 2
        /\ messages[1] = Msg("system", SystemPrompt)
        /\ messages[2].role = "user"
        /\ IF Truthy(excel_file_path)
           THEN /\ SubSeq(messages[2].content, 1, Len(user_request)) = user_request
                /\ Contains(messages[2].content, SandboxExcelPath(variant, excel_file_path))
                /\ preview.kind = "value" =>
                      Contains(messages[2].content, ColumnsInfo(preview.df))
           ELSE messages[2].content = user_request

\* what run_agent appends to the first message for a supplied file
FileNote ==
    IF ~Truthy(excel_file_path) THEN <<>>
    ELSE UploadedNote \o SandboxExcelPath(variant, excel_file_path)
         \o (IF preview.kind = "value"
             THEN ExcelInfo(Basename(excel_file_path), preview.df)
             ELSE <<>>)

\* C5 amended: at the first model call the conversation is [user message]
\* in the console variant and [system prompt, user message, fixed assistant
\* acknowledgement] in the Streamlit variant; the staged path (and the
\* preview when there is one) is appended to the first of these messages,
\* and the text of every message is otherwise fixed or the user's request.
C5_InitialConversationByVariant ==
    (pc = "call_model" /\ model_calls = 0) =>
        IF variant = "cli"
        THEN messages = <<Msg("user", user_request \o FileNote)>>
        ELSE messages = <<Msg("system", SystemPrompt \o FileNote),
                          Msg("user", user_request),
                          Msg("assistant", Ack)>>

\* the Streamlit variant is about to make its first model call for an
\* uploaded file whose preview succeeded
C5_Witness ==
    /\ pc = "call_model"
    /\ model_calls = 0
    /\ variant = "ui"
    /\ Truthy(excel_file_path)
    /\ preview.kind = "value"
    /\ Contains(messages[1].content, SandboxExcelPath(variant, excel_file_path))
    /\ messages[2].content = user_request

\* local paths of the files copy_file_from_sandbox fetched, in fetch order
RECURSIVE Fetched(_)
Fetched(entries) ==
    IF entries = <<>> THEN <<>>
    ELSE (IF /\ Head(entries).fn = "copy_file_from_sandbox"
             /\ Head(entries).caller = "loop"
             /\ Head(entries).outcome.kind = "value"
          THEN <<Head(entries).a2>> ELSE <<>>)
         \o Fetched(Tail(entries))

\* C6: the final result is the last assistant message's text, followed by
\* the trailer listing the fetched files' local paths in fetch order exactly
\* when at least one file was fetched.
C6_FinalResultTrailer ==
    (pc = "end" /\ final_result # Unbound /\ exc = "none") =>
        final_result =
            Last(messages).content
            \o (IF Fetched(log) # <<>>
                THEN Trailer \o Join(<<"\n">>, Fetched(log))
                ELSE <<>>)

\* tool messages that follow the last assistant message
RECURSIVE ToolTail(_)
ToolTail(msgs) ==
    IF msgs = <<>> \/ Last(msgs).role # "tool" THEN 0
    ELSE 1 + ToolTail(SubSeq(msgs, 1, Len(msgs) - 1))

\* C7: an exception of the model call, of parsing a tool call's arguments or
\* of run_code's sandbox propagates: the request ends there, nothing is
\* appended for the failing call and no step follows; an exception inside a
\* copy tool does not propagate.
C7_ExternalExceptionsAbort ==
    [][ /\ exc = "none"
        /\ (pc = "dispatch" /\ ~tool_calls[tc].arguments.json_ok) =>
              exc' = "JSONDecodeError"
        /\ (Len(log') > Len(log) /\ Last(log').outcome.kind = "exc") =>
              IF Last(log').fn = "run_code"
              THEN exc' = "SandboxError"
              ELSE exc' = "none" /\ pc' # "end"
        /\ exc' \in ExternalExceptions =>
              /\ pc' = "end"
              /\ messages' = messages
              /\ sessions' = {}
              /\ exc' = "ModelError" <=> pc = "call_model"
              /\ exc' # "ModelError" =>
                    /\ model_calls' = model_calls
                    /\ ToolTail(messages') = tc - 1
      ]_vars

\* the sandbox threw while running the code of a turn's second tool call,
\* after the first had been answered
C7_Witness ==
    /\ pc = "end"
    /\ exc = "SandboxError"
    /\ tc = 2
    /\ Last(log).fn = "run_code"
    /\ Last(log).outcome = [kind |-> "exc", val |-> ExcBody]
    /\ ToolTail(messages) = 1

\* a notice of the given kind and content was shown
Shown(kind, content) ==
    \E i \in 1..Len(shown) : shown[i] = Notice(kind, content)

\* what the first message and the notices say about a supplied file
PreviewDegrades ==
    /\ (Truthy(excel_file_path) /\ (pc = "call_model" \/ model_calls >= 1)) =>
          Contains(messages[1].content, SandboxExcelPath(variant, excel_file_path))
    /\ preview.kind = "exc" =>
          /\ \/ Shown("warning", PreviewWarning(ExcPreview))
             \/ Shown("warning", PreviewWarning(JoinTypeError(0)))
          /\ messages[1].content =
                InitialMessages(variant, user_request)[1].content
                \o UploadedNote \o SandboxExcelPath(variant, excel_file_path)
          /\ pc = "call_model" \/ model_calls >= 1
    /\ preview.kind = "value" =>
          /\ Contains(messages[1].content, SandboxExcelPath(variant, excel_file_path))
          /\ Contains(messages[1].content, ColumnsInfo(preview.df))
          /\ Contains(messages[1].content, <<"[rows]: ", ToString(preview.df.rows)>>)
          /\ \A i \in 1..Len(shown) : shown[i].kind # "warning"

\* C8: when a file is supplied the first message of the conversation names
\* the sandbox path; if the preview threw, a warning is shown, the message
\* carries no preview and the first model call is still reached; if the
\* preview succeeded the message also carries the column list and row count.
C8_PreviewDegrades == []PreviewDegrades

\* the preview threw and the model has been called
C8_Witness ==
    /\ preview.kind = "exc"
    /\ model_calls >= 1
    /\ Shown("warning", PreviewWarning(ExcPreview))
    /\ Contains(messages[1].content, <<"tmpab12.xlsx">>)

\* C9 as stated: the console process exits non-zero only for a non-empty
\* path that does not exist, before staging or any model call; every other
\* run exits with status zero.
C9_NonZeroOnlyForMissingFile ==
    (variant = "cli" /\ pc = "end") =>
        /\ exit_status # 0 <=> (Truthy(excel_path) /\ ~path_exists)
        /\ exit_status # 0 => model_calls = 0 /\ session_count = 0

\* C9 amended: the console process exits non-zero exactly when the file
\* check finds that a non-empty path does not exist (no staging, no model
\* call) or an exception goes uncaught: building the API client at import,
\* input() at the end of standard input, or anything out of run_agent; every
\* other run, also with an empty path, exits with status zero.
C9_NonZeroForMissingFileOrException ==
    (variant = "cli" /\ pc = "end") =>
        /\ exit_status \in {0, 1}
        /\ exit_status # 0 <=> ((Truthy(excel_path) /\ ~path_exists) \/ exc # "none")
        /\ (Truthy(excel_path) /\ ~path_exists) =>
              /\ model_calls = 0
              /\ session_count = 0
              /\ messages = <<>>
              /\ exc \in {"none", "OpenAIError", "EOFError"}
              /\ exc # "none" => startup \in {"no_api_key", "eof_path"}
        /\ exc \in {"OpenAIError", "EOFError"} <=> startup # "ok" /\ exc # "none"
        /\ (~(Truthy(excel_path) /\ ~path_exists) /\ exc = "none") => exit_status = 0

\* the console process has exited because the file does not exist
C9_Witness ==
    /\ variant = "cli"
    /\ pc = "end"
    /\ exc = "none"
    /\ Truthy(excel_path)
    /\ ~path_exists
    /\ exit_status = 1
    /\ model_calls = 0

\* C10: at most one sandbox session is open at a time; each tool invocation
\* that opened a session had one of its own and closed it before returning
\* or raising, so none is open at a model call or when the request is over.
C10_SessionsScoped ==
    /\ Cardinality(sessions) <= 1
    /\ pc \notin {"tool_body", "session_exit"} => sessions = {}
    /\ pc \in {"tool_body", "session_exit"} => sessions = {session_count}
    /\ \A m, n \in 1..Len(log) :
          (m # n /\ log[m].session # 0) => log[m].session # log[n].session
    /\ \A n \in 1..Len(log) :
          /\ log[n].session \notin sessions
          /\ log[n].session = 0 <=> log[n].outcome = [kind |-> "exc", val |-> ExcOpen]

\* run_code raised out of its with block and the request is over
C10_Witness ==
    /\ pc = "end"
    /\ exc = "SandboxError"
    /\ Last(log).session # 0
    /\ Len(log) >= 2
    /\ sessions = {}

HasText(content) == content # None /\ content # <<>>

\* C11: in the Streamlit variant every run_code call appends its code event
\* before the sandbox runs and its result event after it returned, nothing
\* in between, so a result event directly follows the code event of its
\* call; a narration event is appended with the assistant message, hence
\* before the events of its tool calls, and only when the message has text;
\* events are only ever appended.
C11_EventListOrdered ==
    [][ LET n == Len(all_outputs)
            added == SubSeq(all_outputs', n + 1, Len(all_outputs'))
            new_msg == Len(messages') = Len(messages) + 1
            turn == new_msg /\ Last(messages').role = "assistant"
            answered == /\ new_msg
                        /\ Last(messages').role = "tool"
                        /\ Last(messages').name = "run_code"
            starts == /\ pc = "dispatch"
                      /\ pc' = "session_open"
                      /\ call'.fn = "run_code"
        IN /\ Len(all_outputs') >= n
           /\ SubSeq(all_outputs', 1, n) = all_outputs
           /\ variant = "cli" => added = <<>>
           /\ variant = "ui" =>
                 /\ Len(added) <= 1
                 /\ turn => added = IF HasText(Last(messages').content)
                                    THEN <<Event("ai", Last(messages').content)>>
                                    ELSE <<>>
                 /\ starts => added = <<Event("code", tool_calls[tc].arguments.code)>>
                 /\ answered =>
                       /\ added = <<Event("result", Last(messages').content)>>
                       /\ Last(messages').tool_call_id = tool_calls[tc].id
                       /\ n > 0
                       /\ all_outputs[n] = Event("code", tool_calls[tc].arguments.code)
                 /\ \A i \in 1..Len(added) :
                       /\ added[i].type = "ai" => turn
                       /\ added[i].type = "code" => starts
                       /\ added[i].type = "result" => answered
           /\ \A p \in 1..Len(all_outputs') :
                 all_outputs'[p].type = "result" =>
                     p > 1 /\ all_outputs'[p - 1].type = "code"
      ]_vars

\* a turn with narration and a run_code call has been answered: narration,
\* code and result events stand in that order
C11_Witness ==
    /\ variant = "ui"
    /\ pc = "call_model"
    /\ Len(all_outputs) = 3
    /\ all_outputs[1].type = "ai"
    /\ all_outputs[2] = Event("code", <<"[code]">>)
    /\ all_outputs[3].type = "result"
    /\ all_outputs[3].content = Last(messages).content

IsPrefix(a, b) == Len(a) <= Len(b) /\ SubSeq(b, 1, Len(a)) = a

\* list b is list a followed by one assistant message and one tool message
\* for each of its tool calls, in order
GrowsByOneTurn(a, b) ==
    LET added == SubSeq(b, Len(a) + 1, Len(b))
    IN /\ IsPrefix(a, b)
       /\ Len(b) > Len(a)
       /\ added[1].role = "assistant"
       /\ Len(added) = 1 + Len(added[1].tool_calls)
       /\ \A i \in 2..Len(added) :
             /\ added[i].role = "tool"
             /\ added[i].tool_call_id = added[1].tool_calls[i - 1].id

\* C12: once the first model call has been made the conversation only grows
\* at its end; every model call is given the whole conversation as it stands;
\* the list given to a model call is a strict prefix of the list given to
\* the next one, and the difference is one assistant message followed by the
\* tool messages of that turn.  (sent is the list of the latest call, sent'
\* in a step that makes a call the list of the next.)
C12_ConversationAppendOnly ==
    [][ /\ model_calls >= 1 => IsPrefix(messages, messages')
        /\ IF model_calls' = model_calls + 1
           THEN /\ sent' = messages
                /\ model_calls >= 1 => GrowsByOneTurn(sent, sent')
           ELSE model_calls' = model_calls /\ sent' = sent
        /\ model_calls' >= 1 => IsPrefix(sent', messages')
      ]_vars

\* a second model call was made after a turn with two tool calls, and the
\* model answered it
C12_Witness ==
    /\ model_calls = 2
    /\ Len(messages) = Len(sent) + 1
    /\ IsPrefix(sent, messages)
    /\ Last(sent).role = "tool"
    /\ sent[Len(sent) - 1].role = "tool"
    /\ sent[Len(sent) - 2].role = "assistant"
    /\ Len(sent[Len(sent) - 2].tool_calls) = 2

\* C13: a tool message carries the result of executing its own call; a call
\* whose function name is none of the three tools is never answered with the
\* result of an earlier call.
C13_ToolMessageCarriesOwnResult ==
    \A j \in 1..Len(messages) :
        messages[j].role = "tool" =>
            IF messages[j].name \in KnownTools
            THEN \E n \in 1..Len(log) :
                    /\ log[n].caller = "loop"
                    /\ log[n].id = messages[j].tool_call_id
                    /\ log[n].fn = messages[j].name
                    /\ messages[j].content = ToolReturn(log[n], log[n].outcome)
            ELSE \A n \in 1..Len(log) :
                    (log[n].caller = "loop" /\ log[n].id < messages[j].tool_call_id) =>
                        messages[j].content # ToolReturn(log[n], log[n].outcome)

\* the first message of the conversation after staging a supplied file,
\* written without regard to what the staging copy returned
FirstMessageAfterStaging ==
    (IF variant = "cli" THEN user_request ELSE SystemPrompt)
    \o UploadedNote \o <<"/", "sandbox", "/">> \o Basename(excel_file_path)
    \o (IF preview.kind = "value"
        THEN ExcelInfo(Basename(excel_file_path), preview.df)
        ELSE <<>>)

\* what holds once the staging copy has failed
StagingFailureIgnored ==
    \A n \in 1..Len(log) :
        (log[n].caller = "stage" /\ log[n].outcome.kind = "exc") =>
            /\ copy_result = CopyFailed(log[n].outcome.val)
            /\ \A k \in 1..Len(log) : log[k].caller = "stage" => k = n
            /\ pc = "end" => model_calls >= 1
            /\ pc # "staged" => messages[1].content = FirstMessageAfterStaging
            /\ model_calls >= 1 => sent[1].content = FirstMessageAfterStaging

\* C14: when the staging copy of a supplied file fails, it returns the
\* failure string and run_agent goes on: the copy is not tried again, the
\* request does not end before the first model call, and the conversation
\* of the first model call states the upload at /sandbox/<basename> exactly
\* as after a successful copy.
C14_StagingFailureIgnored == []StagingFailureIgnored

\* the staging copy failed and the first model call was made nonetheless
C14_Witness ==
    /\ log # <<>>
    /\ log[1].caller = "stage"
    /\ log[1].outcome.kind = "exc"
    /\ copy_result = CopyFailed(log[1].outcome.val)
    /\ model_calls >= 1
    /\ Contains(sent[1].content,
                UploadedNote \o <<"/", "sandbox", "/">> \o Basename(excel_file_path))

====
